---- MODULE Spec2Model ----
(***************************************************************************)
(* Model of server.py: the in-memory dataset store (DF, NAME_COL,          *)
(* DISPLAY_COLS), the loader (load_dataset, pick_name_column,              *)
(* build_display_cols) and the request handlers meta, suggest, lookup and  *)
(* reload_ds.                                                              *)
(*                                                                         *)
(* A string is a sequence of characters.  A character is a one-character   *)
(* string; a code point outside ASCII is written by its name "U+XXXX".     *)
(* A table is [columns |-> sequence of column names, rows |-> sequence of  *)
(* rows], a row being the sequence of its cells in column order.           *)
(***************************************************************************)
EXTENDS Integers, Sequences, FiniteSets, TLC

(***************************************************************************)
(* Characters                                                              *)
(***************************************************************************)
UpperChars ==
  << "A", "B", "C", "D", "E", "F", "G", "H", "I", "J", "K", "L", "M",
     "N", "O", "P", "Q", "R", "S", "T", "U", "V", "W", "X", "Y", "Z" >>

LowerChars ==
  << "a", "b", "c", "d", "e", "f", "g", "h", "i", "j", "k", "l", "m",
     "n", "o", "p", "q", "r", "s", "t", "u", "v", "w", "x", "y", "z" >>

Range(f) == { f[i] : i \in DOMAIN f }

\* [A-Z] of the pattern in _is_probably_epic
AsciiUpper == Range(UpperChars)

AsciiLower == Range(LowerChars)

\* [0-9]; str.isdigit on the characters of the model
DigitChars == { "0", "1", "2", "3", "4", "5", "6", "7", "8", "9" }

\* U+00E9 e-acute, U+00C9 E-acute, and the Devanagari letters (category Lo)
\* of PREFERRED_NAME_COLUMNS
OtherLetters == { "U+00E9", "U+00C9", "U+0928", "U+092E", "U+0935", "U+0939", "U+0926" }

\* unicodedata.category(ch) == "Mn": U+0301 combining acute, U+0902 anusvara
NonSpacingMarks == { "U+0301", "U+0902" }

\* the characters str.strip() removes
WhiteSpace == { " ", "\t", "\n", "\r" }

\* ch.isalpha()
IsAlpha(c) == c \in AsciiUpper \cup AsciiLower \cup OtherLetters

\* ch.isdigit()
IsDigit(c) == c \in DigitChars

\* str.lower() of one character
LowerCh(c) ==
  IF c \in AsciiUpper
    THEN LowerChars[CHOOSE i \in DOMAIN UpperChars : UpperChars[i] = c]
    ELSE IF c = "U+00C9" THEN "U+00E9" ELSE c

\* unicodedata.normalize("NFKD", ch) of one character
Decompose(c) ==
  IF c = "U+00E9" THEN << "e", "U+0301" >>
  ELSE IF c = "U+00C9" THEN << "E", "U+0301" >>
  ELSE << c >>

(***************************************************************************)
(* Strings                                                                 *)
(***************************************************************************)
\* str.lower()
Lower(s) == [ i \in 1..Len(s) |-> LowerCh(s[i]) ]

RECURSIVE LStrip(_)
LStrip(s) ==
  IF s # << >> /\ Head(s) \in WhiteSpace THEN LStrip(Tail(s)) ELSE s

RECURSIVE RStrip(_)
RStrip(s) ==
  IF s # << >> /\ s[Len(s)] \in WhiteSpace
    THEN RStrip(SubSeq(s, 1, Len(s) - 1))
    ELSE s

\* str.strip()
Strip(s) == RStrip(LStrip(s))

RECURSIVE NFKD(_)
NFKD(s) == IF s = << >> THEN << >> ELSE Decompose(Head(s)) \o NFKD(Tail(s))

IsNotMark(c) == c \notin NonSpacingMarks

\* strip_marks(text)
strip_marks(text) == Strip(Lower(SelectSeq(NFKD(text), IsNotMark)))

\* str.startswith("_")
StartsWithUnderscore(s) == s # << >> /\ s[1] = "_"

\* sub occurs in s as a literal substring
ContainsLiteral(s, sub) ==
  \E i \in 0..(Len(s) - Len(sub)) : SubSeq(s, i + 1, i + Len(sub)) = sub

\* number of characters of s satisfying a test
CountAlpha(s) == Cardinality({ i \in 1..Len(s) : IsAlpha(s[i]) })

CountDigit(s) == Cardinality({ i \in 1..Len(s) : IsDigit(s[i]) })

(***************************************************************************)
(* Regular expressions.  Series.str.contains(pat, na=False) is called      *)
(* without regex=False, so pandas compiles pat with re.compile and tests   *)
(* each cell with re.search.  Of the characters of the model, ".", "*"     *)
(* and "(" are special to re; every other one is a literal.                *)
(***************************************************************************)
\* re.compile(pat) raises re.error: a "(" is never closed (no ")" among the
\* characters), a "*" has nothing to repeat or repeats a repeat
ReError(pat) ==
  \/ \E i \in 1..Len(pat) : pat[i] = "("
  \/ \E i \in 1..Len(pat) : pat[i] = "*" /\ (i = 1 \/ pat[i - 1] = "*")

ReStarred(pat, i) == i < Len(pat) /\ pat[i + 1] = "*"

\* one pattern character against one subject character
ReCharMatch(p, c) == p = "." \/ p = c

\* the positions reachable from those of P by repeating pattern character p
RECURSIVE ReStarClosure(_, _, _)
ReStarClosure(p, s, P) ==
  LET more == { q + 1 : q \in { q \in P : q < Len(s) /\ ReCharMatch(p, s[q + 1]) } }
  IN  IF more \subseteq P THEN P ELSE ReStarClosure(p, s, P \cup more)

ReStep(pat, i, s, P) ==
  IF ReStarred(pat, i)
    THEN ReStarClosure(pat[i], s, P)
    ELSE { q + 1 : q \in { q \in P : q < Len(s) /\ ReCharMatch(pat[i], s[q + 1]) } }

\* the end positions of the matches of pat[i..] that start in P
RECURSIVE ReRun(_, _, _, _)
ReRun(pat, i, s, P) ==
  IF i > Len(pat) THEN P
  ELSE IF pat[i] = "*" THEN ReRun(pat, i + 1, s, P)
  ELSE ReRun(pat, i + 1, s, ReStep(pat, i, s, P))

\* re.search(pat, s) is not None, for a pat that compiles
ReSearch(pat, s) == ReRun(pat, 1, s, 0..Len(s)) # { }

(***************************************************************************)
(* Exact means of ratios.  A sum of ratios is a pair << numerator,         *)
(* denominator >>; the code computes the same means in floating point.     *)
(***************************************************************************)
RatAdd(a, b) == << a[1] * b[2] + b[1] * a[2], a[2] * b[2] >>

RECURSIVE RatSum(_)
RatSum(ratios) ==
  IF ratios = << >> THEN << 0, 1 >> ELSE RatAdd(Head(ratios), RatSum(Tail(ratios)))

\* a > b
RatGreater(a, b) == a[1] * b[2] > b[1] * a[2]

\* mean(ratios) >= 0.5, for a non-empty sequence
MeanAtLeastHalf(ratios) ==
  LET sum == RatSum(ratios) IN 2 * sum[1] >= sum[2] * Len(ratios)

(***************************************************************************)
(* Tables                                                                  *)
(***************************************************************************)
HasColumn(df, c) == \E i \in 1..Len(df.columns) : df.columns[i] = c

ColIndex(df, c) == CHOOSE i \in 1..Len(df.columns) : df.columns[i] = c

\* df[c]: the cells of column c in row order
Column(df, c) == [ r \in 1..Len(df.rows) |-> df.rows[r][ColIndex(df, c)] ]

\* df[c] = values: replaces column c in place, or appends it as the last column
SetColumn(df, c, values) ==
  IF HasColumn(df, c)
    THEN [ df EXCEPT !.rows =
             [ r \in 1..Len(df.rows) |->
                 [ df.rows[r] EXCEPT ![ColIndex(df, c)] = values[r] ] ] ]
    ELSE [ columns |-> Append(df.columns, c),
           rows |-> [ r \in 1..Len(df.rows) |-> Append(df.rows[r], values[r]) ] ]

\* the rows of a sequence that satisfy a mask, in order
RECURSIVE Filter(_, _)
Filter(seq, mask) ==
  IF seq = << >> THEN << >>
  ELSE (IF Head(mask) THEN << Head(seq) >> ELSE << >>) \o Filter(Tail(seq), Tail(mask))

\* Series.drop_duplicates(): the first occurrence of each value, in order
RECURSIVE drop_duplicates(_)
drop_duplicates(seq) ==
  IF seq = << >> THEN << >>
  ELSE LET init == drop_duplicates(SubSeq(seq, 1, Len(seq) - 1))
           last == seq[Len(seq)]
       IN  IF last \in Range(init) THEN init ELSE Append(init, last)

\* Series.head(n): the first n rows; for a negative n, all but the last -n rows
head(seq, n) ==
  IF n >= 0
    THEN SubSeq(seq, 1, IF n < Len(seq) THEN n ELSE Len(seq))
    ELSE SubSeq(seq, 1, Len(seq) + n)

(***************************************************************************)
(* Column role classifier                                                  *)
(***************************************************************************)
PREFERRED_NAME_COLUMNS ==
  << <<"f", "u", "l", "l", " ", "n", "a", "m", "e">>,
     <<"f", "u", "l", "l", "n", "a", "m", "e">>,
     <<"f", "u", "l", "l", "_", "n", "a", "m", "e">>,
     <<"n", "a", "m", "e", "_", "f", "u", "l", "l">>,
     <<"n", "a", "m", "e">>,
     <<"U+0928", "U+093E", "U+092E">>,
     <<"U+0928", "U+093E", "U+0935">>,
     <<"U+0928", "U+093E", "U+092E", "_", "U+0939", "U+093F", "U+0902", "U+0926", "U+0940">>,
     <<"N", "a", "m", "e">>,
     <<"F", "u", "l", "l", " ", "N", "a", "m", "e">>,
     <<"F", "u", "l", "l", "_", "N", "a", "m", "e">> >>

DISPLAY_COLS_PREFERENCE ==
  << <<"S", "e", "r", "i", "a", "l", " ", "N", "o", ".">>,
     <<"V", "o", "t", "e", "r", " ", "I", "D">>,
     <<"F", "u", "l", "l", " ", "N", "a", "m", "e", " ", "(", "M", "a", "r", "a", "t", "h", "i", ")">>,
     <<"F", "u", "l", "l", " ", "N", "a", "m", "e", " ", "(", "E", "n", "g", "l", "i", "s", "h", ")">>,
     <<"R", "e", "l", "a", "t", "i", "v", "e", "'", "s", " ", "N", "a", "m", "e", " ", "(", "M", "a", "r", "a", "t", "h", "i", ")">>,
     <<"R", "e", "l", "a", "t", "i", "v", "e", "'", "s", " ", "N", "a", "m", "e", " ", "(", "E", "n", "g", "l", "i", "s", "h", ")">>,
     <<"R", "e", "l", "a", "t", "i", "o", "n", "s", "h", "i", "p">>,
     <<"A", "g", "e">>,
     <<"G", "e", "n", "d", "e", "r">>,
     <<"H", "o", "u", "s", "e", " ", "N", "o", ".">>,
     <<"E", "l", "e", "c", "t", "o", "r", "a", "l", " ", "R", "o", "l", "l", " ", "R", "e", "f">> >>

FullNameEnglish ==
  <<"F", "u", "l", "l", " ", "N", "a", "m", "e", " ", "(", "E", "n", "g", "l", "i", "s", "h", ")">>

FullNameMarathi ==
  <<"F", "u", "l", "l", " ", "N", "a", "m", "e", " ", "(", "M", "a", "r", "a", "t", "h", "i", ")">>

FullName == <<"F", "u", "l", "l", " ", "N", "a", "m", "e">>

NameKeyCol == <<"_", "n", "a", "m", "e", "_", "k", "e", "y">>

NameNormCol == <<"_", "n", "a", "m", "e", "_", "n", "o", "r", "m">>

\* re.fullmatch(r"^[A-Z]{2,4}[0-9]{5,8}$", x)
EpicMatch(x) ==
  \E k \in 2..4 :
    /\ Len(x) - k \in 5..8
    /\ \A i \in 1..k : x[i] \in AsciiUpper
    /\ \A i \in (k + 1)..Len(x) : x[i] \in DigitChars

\* digit_ratio(x) of _is_probably_epic, as << digits, length >>
digit_ratio(x) ==
  LET y == Strip(x)
  IN  IF y = << >> THEN << 0, 1 >> ELSE << CountDigit(y), Len(y) >>

\* Series.sample(min(len(s), 300), random_state=...): with at most 300 rows,
\* as every table of this model has, the sample is a permutation of all the
\* rows, and its mean is the mean of the column
Sample(series) == series

\* match_rate >= 0.5, for a column of at least one row
MatchRateAtLeastHalf(series) ==
  2 * Cardinality({ r \in 1..Len(series) : EpicMatch(series[r]) }) >= Len(series)

\* _is_probably_epic(series), for a column of at least one row
is_probably_epic(series) ==
  \/ MatchRateAtLeastHalf(series)
  \/ MeanAtLeastHalf([ r \in 1..Len(Sample(series)) |-> digit_ratio(Sample(series)[r]) ])

\* _alpha_ratio(x), as << letters, length >>
alpha_ratio(x) == IF Len(x) = 0 THEN << 0, 1 >> ELSE << CountAlpha(x), Len(x) >>

\* the score of pick_name_column's loop: the sum of the alpha ratios of the
\* sampled cells (the mean times the row count, which all columns share)
Score(series) ==
  RatSum([ r \in 1..Len(Sample(series)) |-> alpha_ratio(Sample(series)[r]) ])

\* HeuristicLoop with the test of line 107 inverted: the identifier-like
\* columns are the ones scored
RECURSIVE HeuristicLoopKeepsEpic(_, _, _, _)
HeuristicLoopKeepsEpic(df, i, best, best_score) ==
  IF i > Len(df.columns) THEN best
  ELSE LET c == df.columns[i]
           ser == Column(df, c)
       IN  IF ~is_probably_epic(ser)
             THEN HeuristicLoopKeepsEpic(df, i + 1, best, best_score)
             ELSE IF RatGreater(Score(ser), best_score)
                    THEN HeuristicLoopKeepsEpic(df, i + 1, c, Score(ser))
                    ELSE HeuristicLoopKeepsEpic(df, i + 1, best, best_score)

\* the loop of pick_name_column from column i on; best = << >> stands for
\* None, and the loop starts from (None, -1.0)
RECURSIVE HeuristicLoop(_, _, _, _)
HeuristicLoop(df, i, best, best_score) ==
  IF i > Len(df.columns) THEN best
  ELSE LET c == df.columns[i]
           ser == Column(df, c)
       IN  IF is_probably_epic(ser)
             THEN HeuristicLoop(df, i + 1, best, best_score)
             ELSE IF RatGreater(Score(ser), best_score)
                    THEN HeuristicLoop(df, i + 1, c, Score(ser))
                    ELSE HeuristicLoop(df, i + 1, best, best_score)

\* lower_map[key]: the last column whose lowercased name is key
LowerMapHas(df, key) == \E i \in 1..Len(df.columns) : Lower(df.columns[i]) = key

LowerMapGet(df, key) ==
  LET last == CHOOSE i \in 1..Len(df.columns) :
                /\ Lower(df.columns[i]) = key
                /\ \A j \in (i + 1)..Len(df.columns) : Lower(df.columns[j]) # key
  IN  df.columns[last]

\* pick_name_column(df), with the module global FORCE_NAME_COL as force;
\* force = << >> stands for an unset (None) or empty NAME_COL variable, both
\* of which "if FORCE_NAME_COL" rejects
pick_name_column(df, force) ==
  IF force # << >> /\ HasColumn(df, force) THEN force
  ELSE IF \E k \in 1..Len(PREFERRED_NAME_COLUMNS) :
            LowerMapHas(df, Lower(PREFERRED_NAME_COLUMNS[k]))
    THEN LET k == CHOOSE k \in 1..Len(PREFERRED_NAME_COLUMNS) :
                    /\ LowerMapHas(df, Lower(PREFERRED_NAME_COLUMNS[k]))
                    /\ \A j \in 1..(k - 1) :
                         ~LowerMapHas(df, Lower(PREFERRED_NAME_COLUMNS[j]))
         IN  LowerMapGet(df, Lower(PREFERRED_NAME_COLUMNS[k]))
    ELSE LET best == HeuristicLoop(df, 1, << >>, << 0 - 1, 1 >>)
         IN  IF best # << >> THEN best ELSE df.columns[1]

\* the three loops of build_display_cols
RECURSIVE AppendPreferred(_, _, _)
AppendPreferred(df, cols, k) ==
  IF k > Len(DISPLAY_COLS_PREFERENCE) THEN cols
  ELSE LET c == DISPLAY_COLS_PREFERENCE[k]
       IN  AppendPreferred(df,
             IF HasColumn(df, c) /\ c \notin Range(cols) THEN Append(cols, c) ELSE cols,
             k + 1)

RECURSIVE AppendOthers(_, _, _)
AppendOthers(df, cols, i) ==
  IF i > Len(df.columns) THEN cols
  ELSE LET c == df.columns[i]
       IN  AppendOthers(df,
             IF c \notin Range(cols) /\ ~StartsWithUnderscore(c) THEN Append(cols, c) ELSE cols,
             i + 1)

build_display_cols(df, name_col) ==
  AppendOthers(df, AppendPreferred(df, << name_col >>, 1), 1)

(***************************************************************************)
(* Loader                                                                  *)
(***************************************************************************)
\* lines 141-149 of load_dataset: the name column of the table just read
ChooseNameCol(df, force) ==
  IF HasColumn(df, FullNameEnglish) THEN FullNameEnglish
  ELSE IF HasColumn(df, FullNameMarathi) THEN FullNameMarathi
  ELSE IF HasColumn(df, FullName) THEN FullName
  ELSE pick_name_column(df, force)

\* lines 152-154 of load_dataset: the table with its two derived key columns
WithKeys(df, name_col) ==
  LET names == Column(df, name_col)
      keyed == SetColumn(df, NameKeyCol,
                 [ r \in 1..Len(names) |-> Lower(Strip(names[r])) ])
  IN  SetColumn(keyed, NameNormCol,
        [ r \in 1..Len(names) |-> strip_marks(names[r]) ])

\* lines 139-154 of load_dataset: its locals df and name_col
LoadLocals(table, force) ==
  LET name_col == ChooseNameCol(table, force)
  IN  [ df |-> WithKeys(table, name_col), name_col |-> name_col ]

\* lines 156-158: what a complete load_dataset() leaves in the three globals
Loaded(table, force) ==
  LET l == LoadLocals(table, force)
  IN  [ DF |-> l.df, NAME_COL |-> l.name_col,
        DISPLAY_COLS |-> build_display_cols(l.df, l.name_col) ]

\* StoreAfterFailedLoad for a loader that resets DF before it reads the file
StoreAfterFailedLoadReset(df, name_col, display_cols) ==
  << [ columns |-> << >>, rows |-> << >> ], name_col, display_cols >>

\* the three globals after load_dataset() raised at line 137 or 139: nothing
\* was assigned yet
StoreAfterFailedLoad(df, name_col, display_cols) == << df, name_col, display_cols >>

(***************************************************************************)
(* Request handlers, as functions of what they read                        *)
(***************************************************************************)
\* an exception escaping a handler: FastAPI answers 500
ServerError == [ status |-> 500, body |-> [ detail |-> "Internal Server Error" ] ]

\* raise HTTPException(400, "Missing name")
MissingName == [ status |-> 400, body |-> [ detail |-> "Missing name" ] ]

\* the columns of df that do not start with "_", in order
PublicColumns(df) == SelectSeq(df.columns, LAMBDA c : ~StartsWithUnderscore(c))

\* {k: v for k, v in row.items() if not str(k).startswith("_")}: the pairs
\* << column, cell >> of row r in column order
RowDict(df, r) ==
  LET keep == { i \in 1..Len(df.columns) : ~StartsWithUnderscore(df.columns[i]) }
      Pairs[i \in 0..Len(df.columns)] ==
        IF i = 0 THEN << >>
        ELSE IF i \in keep
          THEN Append(Pairs[i - 1], << df.columns[i], df.rows[r][i] >>)
          ELSE Pairs[i - 1]
  IN  Pairs[Len(df.columns)]

\* meta(): name_col is the NAME_COL read at line 333, df the DF read at 334-335
MetaResponse(name_col, df) ==
  [ status |-> 200,
    body |-> [ name_col |-> name_col,
               columns |-> PublicColumns(df),
               total_rows |-> Len(df.rows) ] ]

\* suggest(q, limit): df1 is the DF read first (line 347 or 350), df2 and
\* name_col the DF and NAME_COL read at line 352
SuggestResponse(df1, df2, name_col, q, limit) ==
  LET query == strip_marks(q)
  IN  IF query = << >>
        THEN IF ~HasColumn(df1, name_col) THEN ServerError
             ELSE LET col == Column(df1, name_col)
                      names == [ r \in 1..Len(col) |-> Strip(col[r]) ]
                      nonempty == SelectSeq(names, LAMBDA n : n # << >>)
                  IN  [ status |-> 200,
                        body |-> [ options |-> head(drop_duplicates(nonempty), limit) ] ]
        ELSE IF ReError(query) \/ ~HasColumn(df2, name_col)
                                \/ Len(df1.rows) # Len(df2.rows) THEN ServerError
        ELSE LET norm == Column(df1, NameNormCol)
                 mask == [ r \in 1..Len(norm) |-> ReSearch(query, norm[r]) ]
                 col == Column(df2, name_col)
                 names == [ r \in 1..Len(col) |-> Strip(col[r]) ]
             IN  [ status |-> 200,
                   body |-> [ options |->
                                head(drop_duplicates(Filter(names, mask)), limit) ] ]

\* LookupResponse without the exact stage of lines 371-372: the containment
\* test decides alone
LookupResponseContainsOnly(df1, df2, name_col, name) ==
  LET key == Lower(Strip(name))
  IN  IF ReError(key) \/ ~HasColumn(df2, name_col) THEN ServerError
      ELSE LET col == Column(df2, name_col)
               mask == [ r \in 1..Len(col) |-> ReSearch(key, Lower(Strip(col[r]))) ]
               all2 == [ r \in 1..Len(df2.rows) |-> RowDict(df2, r) ]
               rows == Filter(all2, mask)
           IN  [ status |-> 200, body |-> [ count |-> Len(rows), rows |-> rows ] ]

\* lookup(name) from line 370 on, for a name that is not blank: df1 is the DF
\* read at line 371, df2 and name_col the DF and NAME_COL read at 373-374
LookupResponse(df1, df2, name_col, name) ==
  LET key == Lower(Strip(name))
      keys == Column(df1, NameKeyCol)
      exact == { r \in 1..Len(keys) : keys[r] = key }
      all1 == [ r \in 1..Len(df1.rows) |-> RowDict(df1, r) ]
  IN  IF exact # { }
        THEN LET rows == Filter(all1, [ r \in 1..Len(keys) |-> r \in exact ])
             IN  [ status |-> 200, body |-> [ count |-> Len(rows), rows |-> rows ] ]
        ELSE IF ReError(key) \/ ~HasColumn(df2, name_col) THEN ServerError
        ELSE LET col == Column(df2, name_col)
                 mask == [ r \in 1..Len(col) |-> ReSearch(key, Lower(Strip(col[r]))) ]
                 all2 == [ r \in 1..Len(df2.rows) |-> RowDict(df2, r) ]
                 rows == Filter(all2, mask)
             IN  [ status |-> 200, body |-> [ count |-> Len(rows), rows |-> rows ] ]

\* reload_ds() after a successful load_dataset()
ReloadResponse(name_col, df) ==
  [ status |-> 200,
    body |-> [ ok |-> TRUE, name_col |-> name_col, total_rows |-> Len(df.rows) ] ]

(***************************************************************************)
(* Inputs: the files the loader may find at DATA_PATH, the NAME_COL        *)
(* environment values, and the request parameters                          *)
(***************************************************************************)
VoterID == << "V", "o", "t", "e", "r", " ", "I", "D" >>

CodeCol == << "C", "o", "d", "e" >>

PersonCol == << "P", "e", "r", "s", "o", "n" >>

RefCol == << "R", "e", "f" >>

EpicCol == << "E", "p", "i", "c" >>

WhoCol == << "_", "w", "h", "o" >>

NoCol == << "N", "o" >>

NameUpperCol == << "N", "A", "M", "E" >>

\* Full Name (English), Voter ID
TableA ==
  [ columns |-> << FullNameEnglish, VoterID >>,
    rows |-> <<
      << << "R", "a", "v", "i" >>, << "A", "B", "1", "2", "3", "4", "5" >> >>,
      << << "R", "a", "v", "i", " ", "S" >>, << "A", "B", "1", "2", "3", "4", "6" >> >>,
      << << " ", "R", "A", "V", "I", " " >>, << "A", "B", "1", "2", "3", "4", "7" >> >>,
      << << >>, << "A", "B", "1", "2", "3", "4", "8" >> >>,
      << << "C", "a", "f", "U+00E9" >>, << "A", "B", "1", "2", "3", "4", "9" >> >>,
      << << "R", "a", "v", "i", " " >>, << "A", "B", "1", "2", "3", "5", "0" >> >> >> ]

\* Code, Person
TableB ==
  [ columns |-> << CodeCol, PersonCol >>,
    rows |-> <<
      << << "A", "B", "1", "2", "3", "4", "5" >>, << "A", "m", "i", "t", " ", "K" >> >>,
      << << "C", "D", "6", "7", "8", "9", "0" >>, << "S", "u", "m", "i", "t", " ", "K" >> >> >> ]

\* Ref, Epic
TableC ==
  [ columns |-> << RefCol, EpicCol >>,
    rows |-> <<
      << << "A", "B", "1", "2", "3", "4", "5", "6", "7" >>, << "A", "B", "C", "D", "1", "2", "3", "4", "5" >> >>,
      << << "C", "D", "7", "6", "5", "4", "3", "2", "1" >>, << "W", "X", "Y", "Z", "5", "4", "3", "2", "1" >> >> >> ]

\* _who, No
TableD ==
  [ columns |-> << WhoCol, NoCol >>,
    rows |-> <<
      << << "A", "m", "i", "t" >>, << "1" >> >>,
      << << "S", "u", "m", "i", "t" >>, << "2" >> >> >> ]

\* Voter ID, NAME
TableF ==
  [ columns |-> << VoterID, NameUpperCol >>,
    rows |-> <<
      << << "A", "B", "1", "2", "3", "4", "5" >>, << "A", "m", "i", "t" >> >>,
      << << "A", "B", "1", "2", "3", "4", "6" >>, << "S", "u", "m", "i", "t" >> >>,
      << << "A", "B", "1", "2", "3", "4", "7" >>, << "A", "m", "i", "t" >> >> >> ]

Tables == { TableA, TableB, TableC, TableD, TableF }

\* DATA_PATH does not exist (line 136), or no encoding parses it (line 67)
Missing == [ columns |-> << >>, rows |-> << >>, error |-> "FileNotFoundError" ]

Unreadable == [ columns |-> << >>, rows |-> << >>, error |-> "read_csv" ]

Files == Tables \cup { Missing, Unreadable }

\* os.environ.get("NAME_COL"): unset, or "Voter ID"
Overrides == { << >>, VoterID }

\* the q of suggest and the name of lookup
Inputs ==
  { << >>,
    << " " >>,
    << " ", "R", "A", "V", "I", " " >>,
    << "a", "v", "i" >>,
    << "m", "i", "t" >>,
    << "z", "z" >>,
    << "." >>,
    << "(" >>,
    << "C", "A", "F", "U+00C9" >> }

MaxLimit == 2

DEFAULT_LIMIT == 100

\* the limit of suggest: any int, 100 when the request gives none
Limits == ((0 - 1)..MaxLimit) \cup { DEFAULT_LIMIT }

(***************************************************************************)
(* State                                                                   *)
(***************************************************************************)
VARIABLES
  DF,              \* the global DF; NoTable before the first load (None)
  NAME_COL,        \* the global NAME_COL
  DISPLAY_COLS,    \* the global DISPLAY_COLS
  FORCE_NAME_COL,  \* the global FORCE_NAME_COL, read once from the environment
  phase,           \* "Unloaded" before startup, "Ready" serving, "Down" if startup failed
  reloadTask,      \* the position of a running reload_ds and its locals
  queryTask,       \* the position of a running meta, suggest or lookup and its locals
  resp             \* the last response sent, with the request it answers

vars == << DF, NAME_COL, DISPLAY_COLS, FORCE_NAME_COL, phase, reloadTask, queryTask, resp >>

store == << DF, NAME_COL, DISPLAY_COLS >>

NoTable == [ columns |-> << >>, rows |-> << >> ]

IdleReload == [ pc |-> "idle", df |-> NoTable, name_col |-> << >> ]

IdleQuery == [ pc |-> "idle", q |-> << >>, limit |-> 0, df |-> NoTable, name_col |-> << >> ]

Response(op, q, limit, r) ==
  [ op |-> op, q |-> q, limit |-> limit, status |-> r.status, body |-> r.body ]

\* CanRun for handlers declared "def": each request runs on its own thread
CanRunThreaded == TRUE

\* every handler is an "async def" without an await: once the event loop
\* starts a handler body it runs it to its return before starting another
CanRun == reloadTask.pc = "idle" /\ queryTask.pc = "idle"

Init ==
  /\ DF = NoTable
  /\ NAME_COL = << >>
  /\ DISPLAY_COLS = << >>
  /\ FORCE_NAME_COL \in Overrides
  /\ phase = "Unloaded"
  /\ reloadTask = IdleReload
  /\ queryTask = IdleQuery
  /\ resp = Response("none", << >>, 0, [ status |-> 0, body |-> [ detail |-> "" ] ])

(***************************************************************************)
(* Actions                                                                 *)
(***************************************************************************)
\* _on_startup: load_dataset() before the server accepts a request; an
\* exception ends the process
Startup(file) ==
  /\ phase = "Unloaded"
  /\ IF file \in Tables
       THEN LET new == Loaded(file, FORCE_NAME_COL)
            IN  /\ DF' = new.DF
                /\ NAME_COL' = new.NAME_COL
                /\ DISPLAY_COLS' = new.DISPLAY_COLS
                /\ phase' = "Ready"
       ELSE /\ phase' = "Down"
            /\ UNCHANGED store
  /\ UNCHANGED << FORCE_NAME_COL, reloadTask, queryTask, resp >>

\* reload_ds, load_dataset lines 135-154: read the file into locals, or raise
ReloadBegin(file) ==
  /\ phase = "Ready"
  /\ CanRun
  /\ IF file \in Tables
       THEN /\ reloadTask' = [ pc |-> "DF" ] @@ LoadLocals(file, FORCE_NAME_COL)
            /\ UNCHANGED << store, resp >>
       ELSE LET after == StoreAfterFailedLoad(DF, NAME_COL, DISPLAY_COLS)
            IN  /\ DF' = after[1]
                /\ NAME_COL' = after[2]
                /\ DISPLAY_COLS' = after[3]
                /\ resp' = Response("reload", << >>, 0, ServerError)
                /\ UNCHANGED reloadTask
  /\ UNCHANGED << FORCE_NAME_COL, phase, queryTask >>

\* line 156: DF = df
ReloadSetDF ==
  /\ reloadTask.pc = "DF"
  /\ DF' = reloadTask.df
  /\ reloadTask' = [ reloadTask EXCEPT !.pc = "NAME_COL" ]
  /\ UNCHANGED << NAME_COL, DISPLAY_COLS, FORCE_NAME_COL, phase, queryTask, resp >>

\* line 157: NAME_COL = name_col
ReloadSetNameCol ==
  /\ reloadTask.pc = "NAME_COL"
  /\ NAME_COL' = reloadTask.name_col
  /\ reloadTask' = [ reloadTask EXCEPT !.pc = "DISPLAY_COLS" ]
  /\ UNCHANGED << DF, DISPLAY_COLS, FORCE_NAME_COL, phase, queryTask, resp >>

\* line 158: DISPLAY_COLS = build_display_cols(DF, NAME_COL), and line 389
ReloadFinish ==
  /\ reloadTask.pc = "DISPLAY_COLS"
  /\ DISPLAY_COLS' = build_display_cols(DF, NAME_COL)
  /\ resp' = Response("reload", << >>, 0, ReloadResponse(NAME_COL, DF))
  /\ reloadTask' = IdleReload
  /\ UNCHANGED << DF, NAME_COL, FORCE_NAME_COL, phase, queryTask >>

\* meta, line 333: reads NAME_COL
MetaBegin ==
  /\ phase = "Ready"
  /\ CanRun
  /\ queryTask' = [ IdleQuery EXCEPT !.pc = "meta", !.name_col = NAME_COL ]
  /\ UNCHANGED << store, FORCE_NAME_COL, phase, reloadTask, resp >>

\* meta, lines 334-335: reads DF and returns
MetaFinish ==
  /\ queryTask.pc = "meta"
  /\ resp' = Response("meta", << >>, 0, MetaResponse(queryTask.name_col, DF))
  /\ queryTask' = IdleQuery
  /\ UNCHANGED << store, FORCE_NAME_COL, phase, reloadTask >>

\* suggest, lines 345-350: the first read of DF
SuggestBegin(q, limit) ==
  /\ phase = "Ready"
  /\ CanRun
  /\ queryTask' = [ IdleQuery EXCEPT !.pc = "suggest", !.q = q, !.limit = limit, !.df = DF ]
  /\ UNCHANGED << store, FORCE_NAME_COL, phase, reloadTask, resp >>

\* suggest, the read of NAME_COL (line 347 or 352) and the return
SuggestFinish ==
  /\ queryTask.pc = "suggest"
  /\ resp' = Response("suggest", queryTask.q, queryTask.limit,
               SuggestResponse(queryTask.df, DF, NAME_COL, queryTask.q, queryTask.limit))
  /\ queryTask' = IdleQuery
  /\ UNCHANGED << store, FORCE_NAME_COL, phase, reloadTask >>

\* lookup, lines 367-371: the blank check and the first read of DF
LookupBegin(name) ==
  /\ phase = "Ready"
  /\ CanRun
  /\ IF Strip(name) = << >>
       THEN /\ resp' = Response("lookup", name, 0, MissingName)
            /\ UNCHANGED queryTask
       ELSE /\ queryTask' = [ IdleQuery EXCEPT !.pc = "lookup", !.q = name, !.df = DF ]
            /\ UNCHANGED resp
  /\ UNCHANGED << store, FORCE_NAME_COL, phase, reloadTask >>

\* lookup, lines 372-384: the fallback's reads of DF and NAME_COL, and the return
LookupFinish ==
  /\ queryTask.pc = "lookup"
  /\ resp' = Response("lookup", queryTask.q, 0,
               LookupResponse(queryTask.df, DF, NAME_COL, queryTask.q))
  /\ queryTask' = IdleQuery
  /\ UNCHANGED << store, FORCE_NAME_COL, phase, reloadTask >>

Next ==
  \/ \E file \in Files : Startup(file)
  \/ \E file \in Files : ReloadBegin(file)
  \/ ReloadSetDF
  \/ ReloadSetNameCol
  \/ ReloadFinish
  \/ MetaBegin
  \/ MetaFinish
  \/ \E q \in Inputs, limit \in Limits : SuggestBegin(q, limit)
  \/ SuggestFinish
  \/ \E name \in Inputs : LookupBegin(name)
  \/ LookupFinish

Spec == Init /\ [][Next]_vars

(***************************************************************************)
(* Properties                                                              *)
(***************************************************************************)
\* the server is up and no reload is between its assignments
Idle == phase = "Ready" /\ reloadTask.pc = "idle"

\* (df, name_col, display_cols) is what one load of one file leaves
Consistent(df, name_col, display_cols) ==
  \E t \in Tables :
    /\ Len(t.rows) = Len(df.rows)
    /\ Len(t.columns) <= Len(df.columns)
    /\ SubSeq(df.columns, 1, Len(t.columns)) = t.columns
    /\ Loaded(t, FORCE_NAME_COL) =
         [ DF |-> df, NAME_COL |-> name_col, DISPLAY_COLS |-> display_cols ]

\* the trimmed name-column values of the snapshot, in row order
TrimmedNames ==
  LET col == Column(DF, NAME_COL) IN [ r \in 1..Len(col) |-> Strip(col[r]) ]

\* the first n elements of seq (none for n <= 0)
Prefix(seq, n) ==
  SubSeq(seq, 1, IF n < 0 THEN 0 ELSE IF n < Len(seq) THEN n ELSE Len(seq))

\* the rows of the snapshot selected by mask, as lookup presents them
RowsWhere(mask) == Filter([ r \in 1..Len(DF.rows) |-> RowDict(DF, r) ], mask)

\* the columns of the table as read, without the two derived key columns
BaseColumns == { c \in Range(DF.columns) : c \notin { NameKeyCol, NameNormCol } }

\* no header of lines 142-147 and none of PREFERRED_NAME_COLUMNS is present
NoKnownHeader ==
  /\ ~HasColumn(DF, FullNameEnglish)
  /\ ~HasColumn(DF, FullNameMarathi)
  /\ ~HasColumn(DF, FullName)
  /\ \A k \in 1..Len(PREFERRED_NAME_COLUMNS) :
       \A c \in BaseColumns : Lower(c) # Lower(PREFERRED_NAME_COLUMNS[k])

\* C1: reload atomicity.  Whenever a query handler is between its reads, no
\* reload is between its assignments, the three globals it is about to read
\* are the result of one single load, and what it has read already is part
\* of that same result.
TheoremC1 ==
  queryTask.pc # "idle" =>
    /\ reloadTask.pc = "idle"
    /\ Consistent(DF, NAME_COL, DISPLAY_COLS)
    /\ queryTask.pc \in { "suggest", "lookup" } => queryTask.df = DF
    /\ queryTask.pc = "meta" => queryTask.name_col = NAME_COL

\* a query is between its reads right after a reload replaced the snapshot
WitnessC1 ==
  /\ queryTask.pc = "suggest"
  /\ resp.op = "reload"
  /\ resp.status = 200
  /\ queryTask.df = DF

\* C2: a step in which reload answers with an error leaves DF, NAME_COL and
\* DISPLAY_COLS as they were, and the server Ready.
TheoremC2 ==
  [][ ( /\ reloadTask.pc = "idle"
        /\ reloadTask'.pc = "idle"
        /\ resp'.op = "reload"
        /\ resp'.status = 500 )
      => ( /\ DF' = DF
           /\ NAME_COL' = NAME_COL
           /\ DISPLAY_COLS' = DISPLAY_COLS
           /\ phase' = "Ready" ) ]_vars

\* a reload has failed on a loaded store
WitnessC2 ==
  /\ phase = "Ready"
  /\ resp.op = "reload"
  /\ resp.status = 500
  /\ DF # NoTable
  /\ Consistent(DF, NAME_COL, DISPLAY_COLS)

\* C3: exact match precedence.  When some row's trimmed, case-folded name
\* equals the trimmed, case-folded input, lookup answers 200 with exactly
\* those rows, in row order.
TheoremC3 ==
  ( /\ Idle
    /\ resp.op = "lookup"
    /\ Strip(resp.q) # << >>
    /\ \E r \in 1..Len(DF.rows) : Lower(TrimmedNames[r]) = Lower(Strip(resp.q)) )
  => /\ resp.status = 200
     /\ resp.body.rows =
          RowsWhere([ r \in 1..Len(DF.rows) |->
                        Lower(TrimmedNames[r]) = Lower(Strip(resp.q)) ])
     /\ resp.body.count = Len(resp.body.rows)

\* lookup answered from exact matches while another row holds the key as a
\* proper substring
WitnessC3 ==
  /\ Idle
  /\ resp.op = "lookup"
  /\ resp.status = 200
  /\ resp.body.count > 0
  /\ \E r \in 1..Len(DF.rows) : Lower(TrimmedNames[r]) = Lower(Strip(resp.q))
  /\ \E r \in 1..Len(DF.rows) :
       /\ Lower(TrimmedNames[r]) # Lower(Strip(resp.q))
       /\ ContainsLiteral(Lower(TrimmedNames[r]), Lower(Strip(resp.q)))

\* C4: lookup fallback.  When no row's exact key equals the key, lookup
\* answers with exactly the rows whose trimmed, case-folded name contains the
\* key as a literal substring, in row order, and their count.
ClaimC4 ==
  ( /\ Idle
    /\ resp.op = "lookup"
    /\ Strip(resp.q) # << >>
    /\ \A r \in 1..Len(DF.rows) : Lower(TrimmedNames[r]) # Lower(Strip(resp.q)) )
  => /\ resp.status = 200
     /\ resp.body.rows =
          RowsWhere([ r \in 1..Len(DF.rows) |->
                        ContainsLiteral(Lower(TrimmedNames[r]), Lower(Strip(resp.q))) ])
     /\ resp.body.count = Len(resp.body.rows)

\* C5: suggest with a query that is not empty after normalization answers
\* with the first limit distinct trimmed names of the rows whose normKey
\* contains the normalized query as a literal substring, in row order
\* (stated for the limits that are not negative).
ClaimC5 ==
  ( /\ Idle
    /\ resp.op = "suggest"
    /\ resp.limit >= 0
    /\ strip_marks(resp.q) # << >> )
  => /\ resp.status = 200
     /\ resp.body.options =
          Prefix(drop_duplicates(
                   Filter(TrimmedNames,
                          [ r \in 1..Len(DF.rows) |->
                              ContainsLiteral(strip_marks(Column(DF, NAME_COL)[r]),
                                              strip_marks(resp.q)) ])),
                 resp.limit)

\* C6: suggest with a query that is empty after normalization answers, for
\* every limit, with the prefix of length limit of the distinct non-empty
\* trimmed names in order of first occurrence (a negative limit is read as
\* leaving no room for any entry).
ClaimC6 ==
  ( /\ Idle
    /\ resp.op = "suggest"
    /\ strip_marks(resp.q) = << >> )
  => /\ resp.status = 200
     /\ resp.body.options =
          Prefix(drop_duplicates(SelectSeq(TrimmedNames, LAMBDA n : n # << >>)),
                 resp.limit)
     /\ \A i \in 1..Len(resp.body.options) : resp.body.options[i] # << >>
     /\ \A i, j \in 1..Len(resp.body.options) :
          i # j => resp.body.options[i] # resp.body.options[j]

\* C7: on a Ready snapshot the only failing request is lookup with a blank
\* name, which fails with 400; meta, every suggest and every lookup of a name
\* that is not blank answer 200.
ClaimC7 ==
  resp.op \in { "meta", "suggest", "lookup" } =>
    IF resp.op = "lookup" /\ Strip(resp.q) = << >>
      THEN resp.status = 400
      ELSE resp.status = 200

\* C8: after a load no column whose name starts with "_" is in
\* DISPLAY_COLS (the list build_display_cols made), in meta().columns or
\* among the keys of a row lookup returns.
ClaimC8 ==
  Idle =>
    /\ \A i \in 1..Len(DISPLAY_COLS) : ~StartsWithUnderscore(DISPLAY_COLS[i])
    /\ (resp.op = "meta" /\ resp.status = 200) =>
         \A i \in 1..Len(resp.body.columns) : ~StartsWithUnderscore(resp.body.columns[i])
    /\ (resp.op = "lookup" /\ resp.status = 200) =>
         \A r \in 1..Len(resp.body.rows) :
           \A i \in 1..Len(resp.body.rows[r]) :
             ~StartsWithUnderscore(resp.body.rows[r][i][1])

\* C9: explicit override wins.  When NAME_COL is set in the environment and
\* the loaded table has a column of that name, that column is the name
\* column of the snapshot.
ClaimC9 ==
  ( /\ Idle
    /\ FORCE_NAME_COL # << >>
    /\ FORCE_NAME_COL \in BaseColumns )
  => NAME_COL = FORCE_NAME_COL

\* C10 as stated: with no override and no known header, a column with at
\* least half of its cells matching [A-Z]{2,4}[0-9]{5,8} is not the name
\* column when some other column has a strictly higher textiness score.
ClaimC10 ==
  ( /\ Idle
    /\ FORCE_NAME_COL = << >>
    /\ NoKnownHeader )
  => ~ \E d \in BaseColumns :
         /\ d # NAME_COL
         /\ MatchRateAtLeastHalf(Column(DF, NAME_COL))
         /\ RatGreater(Score(Column(DF, d)), Score(Column(DF, NAME_COL)))

\* C10 amended: ... when some other column that is not itself
\* identifier-like has a strictly higher textiness score.
TheoremC10 ==
  ( /\ Idle
    /\ FORCE_NAME_COL = << >>
    /\ NoKnownHeader )
  => ~ \E d \in BaseColumns :
         /\ d # NAME_COL
         /\ MatchRateAtLeastHalf(Column(DF, NAME_COL))
         /\ ~is_probably_epic(Column(DF, d))
         /\ RatGreater(Score(Column(DF, d)), Score(Column(DF, NAME_COL)))

\* the heuristic passed over a column of identifiers and chose a column of
\* text with a higher score
WitnessC10 ==
  /\ Idle
  /\ FORCE_NAME_COL = << >>
  /\ NoKnownHeader
  /\ ~is_probably_epic(Column(DF, NAME_COL))
  /\ \E c \in BaseColumns :
       /\ c # NAME_COL
       /\ MatchRateAtLeastHalf(Column(DF, c))
       /\ RatGreater(Score(Column(DF, NAME_COL)), Score(Column(DF, c)))

====
